---- MODULE Spec2Model ----
(***************************************************************************)
(* The Mediator example of design_patterns/behaviorals/mediator.py.        *)
(*                                                                         *)
(* The program is single-threaded and synchronous.  Its state is the       *)
(* object graph (each component's _mediator, each mediator's _component1   *)
(* and _component2), the Python call stack, and what has been observed:    *)
(* the lines printed and the notifications received, in order.             *)
(*                                                                         *)
(* The module is either run as a script (the __main__ block, lines 84-95)  *)
(* or imported by a client that constructs mediators, uses the mediator    *)
(* setter, and calls do_a/do_b/do_c/do_d and notify as it likes.  The      *)
(* importing client observes one top-level call at a time: it clears what  *)
(* it has observed when it starts its next operation.  The script never    *)
(* clears anything: its trace is the whole standard output.                *)
(***************************************************************************)
EXTENDS Naturals, Sequences, FiniteSets

\* ------------------------------------------------------------ object pool

\* Instances of Component1, of Component2 and of ConcreteMediator that the
\* client may hold: two of each, enough for two disjoint graphs.
Comp1 == {"c1", "c1x"}
Comp2 == {"c2", "c2x"}
Comp == Comp1 \cup Comp2
Mediators == {"m1", "m2"}

\* Python's None, an object not constructed yet, an object that is no component.
None == "None"
Unborn == "Unborn"
Ext == "ext"

\* The sender argument of a direct notify call: any object.
Senders == Comp1 \cup {Ext}
\* The event argument of a direct notify call: the four labels and a foreign one.
Labels == {"A", "B", "C", "D", "X"}

\* How many times the importing client calls the mediator setter itself.
MaxSets == 2

VARIABLES
    mediator,    \* BaseComponent._mediator of each component
    component1,  \* ConcreteMediator._component1 of each mediator (None: not constructed)
    component2,  \* ConcreteMediator._component2 of each mediator
    stack,       \* the call stack, innermost frame last
    trace,       \* what has been observed, in order
    err,         \* an exception reached the top level
    call,        \* the client's current (or last) top-level operation
    mainpc,      \* the script's next line, "lib" when the module is imported
    exit,        \* <<>> while running, <<code>> once the script has exited
    sets         \* client calls of the setter so far

vars == <<mediator, component1, component2, stack, trace, err, call, mainpc, exit, sets>>
bindings == <<mediator, component1, component2>>

\* ------------------------------------------------------------- the classes

\* The methods of each component class.
Actions1 == {"do_a", "do_b"}
Actions2 == {"do_c", "do_d"}
ActionsOf(c) == IF c \in Comp1 THEN Actions1 ELSE Actions2

\* Label with do_b sending "C".
LabelBAsC(act) ==
    CASE act = "do_a" -> "A"
      [] act = "do_b" -> "C"
      [] act = "do_c" -> "C"
      [] act = "do_d" -> "D"

\* The label each action passes to notify (lines 67, 71, 77, 81).
Label(act) ==
    CASE act = "do_a" -> "A"
      [] act = "do_b" -> "B"
      [] act = "do_c" -> "C"
      [] act = "do_d" -> "D"

\* The letter in the line each action prints (lines 66, 70, 76, 80).
Does(act) ==
    CASE act = "do_a" -> "A"
      [] act = "do_b" -> "B"
      [] act = "do_c" -> "C"
      [] act = "do_d" -> "D"

\* ActionBody with the notification sent before the line is printed.
ActionBodyNotifyFirst == <<"notify", "print">>

\* The statements of every do_x, in order: print, then self.mediator.notify.
ActionBody == <<"print", "notify">>

\* Reaction without the branch for "A".
ReactionNoA(event) ==
    IF event = "D" THEN <<"do_b", "do_c">>
    ELSE <<>>

\* Reaction with the two calls of the branch for "D" exchanged.
ReactionDSwapped(event) ==
    IF event = "A" THEN <<"do_c">>
    ELSE IF event = "D" THEN <<"do_c", "do_b">>
    ELSE <<>>

\* Reaction with a branch for "B" as well.
ReactionAlsoB(event) ==
    IF event = "A" THEN <<"do_c">>
    ELSE IF event = "D" THEN <<"do_b", "do_c">>
    ELSE IF event = "B" THEN <<"do_c">>
    ELSE <<>>

\* Reaction with a branch for "B" that calls do_d back: a cycle D, B, D, ...
ReactionCyclic(event) ==
    IF event = "A" THEN <<"do_c">>
    ELSE IF event = "D" THEN <<"do_b", "do_c">>
    ELSE IF event = "B" THEN <<"do_d">>
    ELSE <<>>

\* The component calls of notify's branch for an event, in order (lines 43-49).
Reaction(event) ==
    IF event = "A" THEN <<"do_c">>
    ELSE IF event = "D" THEN <<"do_b", "do_c">>
    ELSE <<>>

\* Receiver with the components kept in class attributes, shared by every
\* mediator: the ones of one constructed mediator serve all.
ReceiverShared(m, act) ==
    LET k == CHOOSE j \in Mediators : component1[j] # None
    IN IF act \in Actions1 THEN component1[k] ELSE component2[k]

\* The object a reaction call is made on: self._component1 or self._component2.
Receiver(m, act) == IF act \in Actions1 THEN component1[m] ELSE component2[m]

\* BaseComponent.__init__ (lines 53-54) on the components' _mediator.
NewComponent(f, c, m) == [f EXCEPT ![c] = m]

\* SetMediator that keeps a mediator already set: the first binding wins.
SetMediatorKeep(f, c, m) == IF f[c] \in Mediators THEN f ELSE [f EXCEPT ![c] = m]

\* The property setter (lines 60-62) applied to the components' _mediator.
SetMediator(f, c, m) == [f EXCEPT ![c] = m]

\* InitBind without line 40: the second component is stored but not bound.
InitBindFirstOnly(f, m, x, y) == SetMediator(f, x, m)

\* ConcreteMediator.__init__ (lines 36-40) on the components' _mediator.
InitBind(f, m, x, y) == SetMediator(SetMediator(f, x, m), y, m)

\* ------------------------------------------------------------ observations

Effect(c, act) == [kind |-> "effect", obj |-> c, label |-> Does(act), sender |-> None]
Banner(m, label) == [kind |-> "banner", obj |-> m, label |-> label, sender |-> None]
Notified(m, s, label) == [kind |-> "notify", obj |-> m, label |-> label, sender |-> s]
ClientLine(label) == [kind |-> "client", obj |-> None, label |-> label, sender |-> None]

\* ---------------------------------------------------------------- frames

ActionFrame(c, act) ==
    [fn |-> act, self |-> c, sender |-> None, event |-> None, pc |-> 1]
NotifyFrame(m, s, e) ==
    [fn |-> "notify", self |-> m, sender |-> s, event |-> e, pc |-> 0]

\* A frame with no statement left.
Finished(f) ==
    IF f.fn = "notify" THEN f.pc > Len(Reaction(f.event))
    ELSE f.pc > Len(ActionBody)

Top(stk) == stk[Len(stk)]
Pop(stk) == SubSeq(stk, 1, Len(stk) - 1)
Advance(stk) == [stk EXCEPT ![Len(stk)].pc = @ + 1]

\* Returning: every innermost frame with nothing left to run is popped.
RECURSIVE Unwind(_)
Unwind(stk) ==
    IF stk = <<>> THEN stk
    ELSE IF Finished(Top(stk)) THEN Unwind(Pop(stk))
    ELSE stk

Idle == [op |-> "idle", target |-> None, event |-> None, sender |-> None,
         x |-> None, y |-> None, start |-> 1]

Constructed(m) == m \in Mediators /\ component1[m] # None

\* ------------------------------------------------------------------ Init

Init ==
    /\ mainpc \in {"85", "lib"}
    \* the importing client has made its components with Component1() and
    \* Component2(); the script has made none yet
    /\ mediator = [c \in Comp |-> IF mainpc = "lib" THEN None ELSE Unborn]
    /\ component1 = [m \in Mediators |-> None]
    /\ component2 = [m \in Mediators |-> None]
    /\ stack = <<>>
    /\ trace = <<>>
    /\ err = FALSE
    /\ call = Idle
    /\ exit = <<>>
    /\ sets = 0

\* ------------------------------------------------- the interpreter's steps

\* Line 66, 70, 76 or 80: the action prints its own line.
ActPrint ==
    /\ stack # <<>>
    /\ Top(stack).fn # "notify"
    /\ ActionBody[Top(stack).pc] = "print"
    /\ trace' = Append(trace, Effect(Top(stack).self, Top(stack).fn))
    /\ stack' = Unwind(Advance(stack))
    /\ UNCHANGED <<mediator, component1, component2, err, call, mainpc, exit, sets>>

\* ActNotify guarded by "if self.mediator is not None": no mediator, no
\* notification, and the action returns normally.
ActNotifySilent ==
    /\ stack # <<>>
    /\ Top(stack).fn # "notify"
    /\ ActionBody[Top(stack).pc] = "notify"
    /\ LET f == Top(stack)
           m == mediator[f.self]
       IN IF m = None
          THEN /\ stack' = Unwind(Advance(stack))
               /\ err' = err
               /\ trace' = trace
          ELSE /\ stack' = Append(Advance(stack), NotifyFrame(m, f.self, Label(f.fn)))
               /\ err' = err
               /\ trace' = Append(trace, Notified(m, f.self, Label(f.fn)))
    /\ UNCHANGED <<mediator, component1, component2, call, mainpc, exit, sets>>

\* Line 67, 71, 77 or 81: self.mediator.notify(self, label).  On None the
\* attribute lookup raises AttributeError, which nothing catches.
ActNotify ==
    /\ stack # <<>>
    /\ Top(stack).fn # "notify"
    /\ ActionBody[Top(stack).pc] = "notify"
    /\ LET f == Top(stack)
           m == mediator[f.self]
       IN IF m = None
          THEN /\ stack' = <<>>
               /\ err' = TRUE
               /\ trace' = trace
          ELSE /\ stack' = Append(Advance(stack), NotifyFrame(m, f.self, Label(f.fn)))
               /\ err' = err
               /\ trace' = Append(trace, Notified(m, f.self, Label(f.fn)))
    /\ UNCHANGED <<mediator, component1, component2, call, mainpc, exit, sets>>

\* Dispatch that looks at the sender: a notification from an object that is
\* no component is dropped.
DispatchBySender ==
    /\ stack # <<>>
    /\ Top(stack).fn = "notify"
    /\ Top(stack).pc = 0
    /\ stack' = IF Top(stack).sender \in Comp THEN Unwind(Advance(stack))
                ELSE Unwind(Pop(stack))
    /\ trace' = IF Reaction(Top(stack).event) = <<>> \/ Top(stack).sender \notin Comp
                THEN trace
                ELSE Append(trace, Banner(Top(stack).self, Top(stack).event))
    /\ UNCHANGED <<mediator, component1, component2, err, call, mainpc, exit, sets>>

\* Lines 43-44 and 46-47: the branch on the event, and the branch's banner.
\* An event with no branch returns at once.
Dispatch ==
    /\ stack # <<>>
    /\ Top(stack).fn = "notify"
    /\ Top(stack).pc = 0
    /\ stack' = Unwind(Advance(stack))
    /\ trace' = IF Reaction(Top(stack).event) = <<>> THEN trace
                ELSE Append(trace, Banner(Top(stack).self, Top(stack).event))
    /\ UNCHANGED <<mediator, component1, component2, err, call, mainpc, exit, sets>>

\* React binding the called component to this mediator before the call.
ReactRebind ==
    /\ stack # <<>>
    /\ Top(stack).fn = "notify"
    /\ Top(stack).pc >= 1
    /\ LET f == Top(stack)
           act == Reaction(f.event)[f.pc]
       IN /\ stack' = Append(Advance(stack), ActionFrame(Receiver(f.self, act), act))
          /\ mediator' = SetMediator(mediator, Receiver(f.self, act), f.self)
    /\ UNCHANGED <<component1, component2, trace, err, call, mainpc, exit, sets>>

\* Lines 45, 48, 49: the next component call of the branch.
React ==
    /\ stack # <<>>
    /\ Top(stack).fn = "notify"
    /\ Top(stack).pc >= 1
    /\ LET f == Top(stack)
           act == Reaction(f.event)[f.pc]
       IN stack' = Append(Advance(stack), ActionFrame(Receiver(f.self, act), act))
    /\ UNCHANGED <<mediator, component1, component2, trace, err, call, mainpc, exit, sets>>

Step == ActPrint \/ ActNotify \/ Dispatch \/ React

\* ------------------------------------------------- the importing client

AtClient == mainpc = "lib" /\ stack = <<>>

\* m = ConcreteMediator(x, y)
ClientNew(m, x, y) ==
    /\ AtClient
    /\ ~Constructed(m)
    /\ component1' = [component1 EXCEPT ![m] = x]
    /\ component2' = [component2 EXCEPT ![m] = y]
    /\ mediator' = InitBind(mediator, m, x, y)
    /\ call' = [Idle EXCEPT !.op = "new", !.target = m, !.x = x, !.y = y]
    /\ trace' = <<>>
    /\ err' = FALSE
    /\ UNCHANGED <<stack, mainpc, exit, sets>>

\* c.mediator = v
ClientSet(c, v) ==
    /\ AtClient
    /\ sets < MaxSets
    /\ v = None \/ Constructed(v)
    /\ mediator' = SetMediator(mediator, c, v)
    /\ sets' = sets + 1
    /\ call' = [Idle EXCEPT !.op = "set", !.target = c, !.x = v]
    /\ trace' = <<>>
    /\ err' = FALSE
    /\ UNCHANGED <<component1, component2, stack, mainpc, exit>>

\* c.do_a(), c.do_b(), c.do_c() or c.do_d()
ClientCall(c, act) ==
    /\ AtClient
    /\ stack' = <<ActionFrame(c, act)>>
    /\ call' = [Idle EXCEPT !.op = act, !.target = c]
    /\ trace' = <<>>
    /\ err' = FALSE
    /\ UNCHANGED <<mediator, component1, component2, mainpc, exit, sets>>

\* m.notify(s, e)
ClientNotify(m, s, e) ==
    /\ AtClient
    /\ Constructed(m)
    /\ stack' = <<NotifyFrame(m, s, e)>>
    /\ call' = [Idle EXCEPT !.op = "notify", !.target = m, !.event = e, !.sender = s]
    /\ trace' = <<Notified(m, s, e)>>
    /\ err' = FALSE
    /\ UNCHANGED <<mediator, component1, component2, mainpc, exit, sets>>

Client ==
    \/ \E m \in Mediators, x \in Comp1, y \in Comp2 : ClientNew(m, x, y)
    \/ \E c \in Comp, v \in Mediators \cup {None} : ClientSet(c, v)
    \/ \E c \in Comp : \E act \in ActionsOf(c) : ClientCall(c, act)
    \/ \E m \in Mediators, s \in Senders, e \in Labels : ClientNotify(m, s, e)

\* ------------------------------------------------------------ the script

AtMain(line) == mainpc = line /\ stack = <<>> /\ ~err

\* c1 = Component1()
Main85 ==
    /\ AtMain("85")
    /\ mediator' = NewComponent(mediator, "c1", None)
    /\ mainpc' = "86"
    /\ UNCHANGED <<component1, component2, stack, trace, err, call, exit, sets>>

\* c2 = Component2()
Main86 ==
    /\ AtMain("86")
    /\ mediator' = NewComponent(mediator, "c2", None)
    /\ mainpc' = "87"
    /\ UNCHANGED <<component1, component2, stack, trace, err, call, exit, sets>>

\* mediator = ConcreteMediator(c1, c2)
Main87 ==
    /\ AtMain("87")
    /\ component1' = [component1 EXCEPT !["m1"] = "c1"]
    /\ component2' = [component2 EXCEPT !["m1"] = "c2"]
    /\ mediator' = InitBind(mediator, "m1", "c1", "c2")
    /\ call' = [Idle EXCEPT !.op = "new", !.target = "m1", !.x = "c1", !.y = "c2",
                            !.start = Len(trace) + 1]
    /\ mainpc' = "89"
    /\ UNCHANGED <<stack, trace, err, exit, sets>>

\* print("Client triggers operation A.")
Main89 ==
    /\ AtMain("89")
    /\ trace' = Append(trace, ClientLine("A"))
    /\ call' = [Idle EXCEPT !.op = "print", !.start = Len(trace) + 1]
    /\ mainpc' = "90"
    /\ UNCHANGED <<mediator, component1, component2, stack, err, exit, sets>>

\* c1.do_a()
Main90 ==
    /\ AtMain("90")
    /\ stack' = <<ActionFrame("c1", "do_a")>>
    /\ call' = [Idle EXCEPT !.op = "do_a", !.target = "c1", !.start = Len(trace) + 1]
    /\ mainpc' = "92"
    /\ UNCHANGED <<mediator, component1, component2, trace, err, exit, sets>>

\* print("\n", end="")
Main92 ==
    /\ AtMain("92")
    /\ trace' = Append(trace, ClientLine("newline"))
    /\ call' = [Idle EXCEPT !.op = "print", !.start = Len(trace) + 1]
    /\ mainpc' = "94"
    /\ UNCHANGED <<mediator, component1, component2, stack, err, exit, sets>>

\* print("Client triggers operation D.")
Main94 ==
    /\ AtMain("94")
    /\ trace' = Append(trace, ClientLine("D"))
    /\ call' = [Idle EXCEPT !.op = "print", !.start = Len(trace) + 1]
    /\ mainpc' = "95"
    /\ UNCHANGED <<mediator, component1, component2, stack, err, exit, sets>>

\* c2.do_d()
Main95 ==
    /\ AtMain("95")
    /\ stack' = <<ActionFrame("c2", "do_d")>>
    /\ call' = [Idle EXCEPT !.op = "do_d", !.target = "c2", !.start = Len(trace) + 1]
    /\ mainpc' = "end"
    /\ UNCHANGED <<mediator, component1, component2, trace, err, exit, sets>>

\* The interpreter exits: 0 at the end of the script, 1 on an uncaught exception.
MainExit ==
    /\ mainpc \notin {"lib", "exited"}
    /\ stack = <<>>
    /\ mainpc = "end" \/ err
    /\ exit' = IF err THEN <<1>> ELSE <<0>>
    /\ mainpc' = "exited"
    /\ UNCHANGED <<mediator, component1, component2, stack, trace, err, call, sets>>

Main ==
    \/ Main85 \/ Main86 \/ Main87 \/ Main89 \/ Main90
    \/ Main92 \/ Main94 \/ Main95 \/ MainExit

Next == Step \/ Client \/ Main

Spec == Init /\ [][Next]_vars

FairSpec == Spec /\ WF_vars(Step) /\ WF_vars(Main)

\* ------------------------------------------------- reading the trace

\* What the current top-level call has produced so far.
CallTrace == SubSeq(trace, call.start, Len(trace))

IsPrint(e) == e.kind \in {"effect", "banner"}
IsNote(e) == e.kind = "notify"
IsStdout(e) == e.kind \in {"effect", "banner", "client"}
Prints(seq) == SelectSeq(seq, IsPrint)
Notes(seq) == SelectSeq(seq, IsNote)
Stdout(seq) == SelectSeq(seq, IsStdout)

IsPrefix(s, t) == Len(s) <= Len(t) /\ s = SubSeq(t, 1, Len(s))

\* m was built over x and y, and both still reference it.
Graph(m, x, y) ==
    /\ component1[m] = x
    /\ component2[m] = y
    /\ mediator[x] = m
    /\ mediator[y] = m

AllActions == Actions1 \cup Actions2
Returned == stack = <<>>

\* ------------------------------------------------------------------- C1

\* C1: with c1 and c2 bound to one ConcreteMediator(c1, c2), a client
\* c1.do_a() prints 'Component 1 does A.', the mediator's banner for A and
\* 'Component 2 does C.', in this order and nothing else: what is printed is at
\* every moment a prefix of these three lines, and all three once the call
\* has returned, which it does without an error.
C1_DoATrace ==
    \A m \in Mediators, x \in Comp1, y \in Comp2 :
        (call.op = "do_a" /\ call.target = x /\ Graph(m, x, y)) =>
            LET want == <<Effect(x, "do_a"), Banner(m, "A"), Effect(y, "do_c")>>
            IN /\ IsPrefix(Prints(CallTrace), want)
               /\ Returned => (Prints(CallTrace) = want /\ ~err)

C1_Witness ==
    \E m \in Mediators, x \in Comp1, y \in Comp2 :
        /\ call.op = "do_a" /\ call.target = x /\ Graph(m, x, y)
        /\ Returned
        /\ Len(Prints(CallTrace)) = 3

\* ------------------------------------------------------------------- C2

\* C2: with c1 and c2 bound to one ConcreteMediator(c1, c2), a client
\* c2.do_d() prints exactly 'Component 2 does D.', the banner for D,
\* 'Component 1 does B.' and 'Component 2 does C.' in this order: B before C,
\* and no fifth line.
C2_DoDTrace ==
    \A m \in Mediators, x \in Comp1, y \in Comp2 :
        (call.op = "do_d" /\ call.target = y /\ Graph(m, x, y)) =>
            LET want == <<Effect(y, "do_d"), Banner(m, "D"),
                          Effect(x, "do_b"), Effect(y, "do_c")>>
            IN /\ IsPrefix(Prints(CallTrace), want)
               /\ Returned => (Prints(CallTrace) = want /\ ~err)

C2_Witness ==
    \E m \in Mediators, x \in Comp1, y \in Comp2 :
        /\ call.op = "do_d" /\ call.target = y /\ Graph(m, x, y)
        /\ Returned
        /\ Len(Prints(CallTrace)) = 4

\* ------------------------------------------------------------------- C3

\* The notification at position i of the trace is the client's own notify call.
DirectNote(i) == call.op = "notify" /\ i = call.start

\* C3: for every invocation of an action, by the client or by a reaction,
\* the action's line is printed before the mediator receives its notification:
\* every notification received from an action is immediately preceded by the
\* line of the component that sent it.
C3_EffectBeforeNotify ==
    \A i \in DOMAIN trace :
        (IsNote(trace[i]) /\ ~DirectNote(i)) =>
            /\ i > 1
            /\ trace[i-1].kind = "effect"
            /\ trace[i-1].obj = trace[i].sender
            /\ trace[i-1].label = trace[i].label

C3_Witness ==
    /\ call.op = "do_d"
    /\ Returned
    /\ \E i \in DOMAIN trace : IsNote(trace[i]) /\ trace[i].label = "C"
    /\ \E i \in DOMAIN trace : IsNote(trace[i]) /\ trace[i].label = "B"

\* ------------------------------------------------------------------- C4

\* C4: for an event label other than "A" and "D", notify prints no banner and
\* calls no component action: no banner for such a label is ever printed, a
\* notify frame for such a label never has a callee, a direct notify with
\* such a label leaves nothing but the received notification, and a client
\* do_b or do_c on a bound component yields that component's own line alone.
C4_OtherLabelsIgnored ==
    /\ \A i \in DOMAIN trace :
           trace[i].kind = "banner" => trace[i].label \in {"A", "D"}
    /\ \A i \in DOMAIN stack :
           (stack[i].fn = "notify" /\ stack[i].event \notin {"A", "D"}) =>
               i = Len(stack)
    /\ (call.op = "notify" /\ call.event \notin {"A", "D"}) =>
           CallTrace = <<Notified(call.target, call.sender, call.event)>>
    /\ (call.op \in {"do_b", "do_c"} /\ mediator[call.target] \in Mediators) =>
           /\ IsPrefix(Prints(CallTrace), <<Effect(call.target, call.op)>>)
           /\ Returned => (Prints(CallTrace) = <<Effect(call.target, call.op)>> /\ ~err)

C4_Witness ==
    /\ call.op = "do_b"
    /\ mediator[call.target] \in Mediators
    /\ Returned
    /\ Len(CallTrace) = 2

\* ------------------------------------------------------------------- C5

\* C5: an action invoked by the client on a component with no mediator
\* surfaces an error to the caller and leaves nothing beyond the component's
\* own line: no notification, no banner, no other component's line.
C5_UnboundRaises ==
    (call.op \in AllActions /\ mediator[call.target] = None) =>
        /\ IsPrefix(CallTrace, <<Effect(call.target, call.op)>>)
        /\ Len(stack) <= 1
        /\ Returned => (err /\ CallTrace = <<Effect(call.target, call.op)>>)

C5_Witness ==
    /\ call.op = "do_d"
    /\ mediator[call.target] = None
    /\ Returned
    /\ err
    /\ Len(CallTrace) = 1

\* ------------------------------------------------------------------- C6

\* C6 as stated: an action on a component whose mediator was never set
\* completes normally, no error reaching the caller.
C6_UnboundSilent ==
    (call.op \in AllActions /\ mediator[call.target] = None /\ Returned) => ~err

\* The last thing observed is the line of a component with no mediator.
LastIsUnboundEffect ==
    /\ trace # <<>>
    /\ trace[Len(trace)].kind = "effect"
    /\ mediator[trace[Len(trace)].obj] = None

\* C6 amended: an unrecognized event label is ignored silently, an undefined
\* mediator reference is not.  Every action invoked on a component with no
\* mediator, by the client or by a reaction, prints its line and then raises to
\* the top level; an error arises in no other way; and a notify call with a
\* label other than "A" and "D" returns without one.
C6_UnboundNotIgnored ==
    /\ err => (Returned /\ LastIsUnboundEffect)
    /\ (Returned /\ call.op \in AllActions \cup {"notify"} /\ LastIsUnboundEffect) => err
    /\ (call.op = "notify" /\ call.event \notin {"A", "D"}) => ~err

C6_Witness ==
    /\ call.op = "do_a"
    /\ mediator[call.target] = None
    /\ Returned
    /\ err
    /\ CallTrace = <<Effect(call.target, "do_a")>>

\* ------------------------------------------------------------------- C7

\* m and n are two graphs with no component in common.
Disjoint(m, n) ==
    /\ Constructed(m)
    /\ Constructed(n)
    /\ Graph(m, component1[m], component2[m])
    /\ Graph(n, component1[n], component2[n])
    /\ component1[m] # component1[n]
    /\ component2[m] # component2[n]

\* C7: with two graphs built from disjoint components, a client action on a
\* component of one graph never reaches the other: every line, banner and
\* notification of the call comes from the first graph's objects, and every
\* frame on the stack runs on one of them.
C7_NoInterference ==
    \A m \in Mediators : \A n \in Mediators \ {m} :
        (/\ Disjoint(m, n)
         /\ call.op \in AllActions
         /\ call.target \in {component1[m], component2[m]}) =>
            LET own == {m, component1[m], component2[m]}
            IN /\ \A i \in DOMAIN CallTrace :
                      /\ CallTrace[i].obj \in own
                      /\ CallTrace[i].sender \in own \cup {None}
               /\ \A i \in DOMAIN stack : stack[i].self \in own

C7_Witness ==
    \E m \in Mediators : \E n \in Mediators \ {m} :
        /\ Disjoint(m, n)
        /\ call.op = "do_d"
        /\ call.target = component2[m]
        /\ Returned
        /\ Len(CallTrace) = 7

\* ------------------------------------------------------------------- C8

\* The standard output of the script, whole.
MainStdout ==
    << ClientLine("A"), Effect("c1", "do_a"), Banner("m1", "A"), Effect("c2", "do_c"),
       ClientLine("newline"),
       ClientLine("D"), Effect("c2", "do_d"), Banner("m1", "D"),
       Effect("c1", "do_b"), Effect("c2", "do_c") >>

\* The script never calls an action on an unbound component, never sees an
\* error, prints its lines in the script's order (all of do_a's before any of
\* do_d's), and exits with 0 only.
C8_Safe ==
    mainpc # "lib" =>
        /\ ~err
        /\ \A i \in DOMAIN stack :
               stack[i].fn # "notify" => mediator[stack[i].self] \in Mediators
        /\ IsPrefix(Stdout(trace), MainStdout)
        /\ (mainpc = "92" /\ Returned) => Stdout(trace) = SubSeq(MainStdout, 1, 4)
        /\ exit \in {<<>>, <<0>>}
        /\ mainpc = "exited" => (exit = <<0>> /\ Stdout(trace) = MainStdout)

\* C8: the demonstration script never invokes an action on an unbound
\* component, emits the complete do_a trace before any effect of the do_d
\* trace, reaches no error state, and always comes to exit with code 0.
C8_Demo == []C8_Safe /\ ((mainpc # "lib") ~> (exit = <<0>>))

C8_Witness ==
    /\ mainpc = "exited"
    /\ exit = <<0>>
    /\ Len(trace) = 15

\* ------------------------------------------------------------------- C9

\* C9: ConcreteMediator(c1, c2) stores c1 and c2 and makes itself the
\* mediator of both, whatever they held before; and no step of a component
\* action or of notify, nor the call that starts one, changes any component's
\* mediator or any mediator's components.
C9_Bindings ==
    /\ [](call.op = "new" => Graph(call.target, call.x, call.y))
    /\ [][(stack # <<>> \/ stack' # <<>>) => UNCHANGED bindings]_vars

\* A second mediator has just taken over a component that the first one holds.
C9_Witness ==
    /\ call.op = "new"
    /\ \E k \in Mediators \ {call.target} :
           /\ Constructed(k)
           /\ component1[k] = call.x
           /\ component2[k] # call.y
           /\ mediator[component2[k]] = k
    /\ mediator[call.x] = call.target

\* ------------------------------------------------------------------ C10

\* C10: every action invocation sends exactly one notification, with the
\* invoking component as sender and the action's own label, to the mediator
\* the component references: each line of a component is followed at once by
\* that notification and each such notification follows its line; so on a
\* graph bound to one mediator a client do_a is received as (c1,"A"), (c2,"C")
\* and a client do_d as (c2,"D"), (c1,"B"), (c2,"C").
C10_Notifications ==
    /\ \A i \in DOMAIN trace :
           (IsNote(trace[i]) /\ ~DirectNote(i)) =>
               /\ i > 1
               /\ trace[i-1] = [kind |-> "effect", obj |-> trace[i].sender,
                                label |-> trace[i].label, sender |-> None]
               /\ trace[i].obj = mediator[trace[i].sender]
    /\ \A i \in DOMAIN trace :
           trace[i].kind = "effect" =>
               IF i = Len(trace) THEN stack # <<>> \/ err
               ELSE IsNote(trace[i+1]) /\ trace[i+1].sender = trace[i].obj
    /\ \A m \in Mediators, x \in Comp1, y \in Comp2 :
           (Graph(m, x, y) /\ Returned) =>
               /\ (call.op = "do_a" /\ call.target = x) =>
                      Notes(CallTrace) = <<Notified(m, x, "A"), Notified(m, y, "C")>>
               /\ (call.op = "do_d" /\ call.target = y) =>
                      Notes(CallTrace) = <<Notified(m, y, "D"), Notified(m, x, "B"),
                                           Notified(m, y, "C")>>

C10_Witness ==
    \E m \in Mediators, x \in Comp1, y \in Comp2 :
        /\ Graph(m, x, y)
        /\ Returned
        /\ call.op = "do_d"
        /\ call.target = y
        /\ Len(Notes(CallTrace)) = 3
        /\ mainpc = "lib"

\* ------------------------------------------------------------------ C11

\* What one invocation of act on c leaves in the trace: its line, and the
\* notification its mediator receives when it has one.
InvocationTrace(c, letter) ==
    <<[kind |-> "effect", obj |-> c, label |-> letter, sender |-> None]>>
    \o (IF mediator[c] = None THEN <<>>
        ELSE <<[kind |-> "notify", obj |-> mediator[c], label |-> letter, sender |-> c]>>)

\* What m.notify(_, e) leaves in the trace after the notification itself,
\* written from the bindings and the label alone.
ReactionTrace(m, e) ==
    LET x == component1[m]
        y == component2[m]
        banner == <<[kind |-> "banner", obj |-> m, label |-> e, sender |-> None]>>
    IN IF e = "A" THEN banner \o InvocationTrace(y, "C")
       ELSE IF e = "D"
            THEN banner \o InvocationTrace(x, "B")
                 \o (IF mediator[x] = None THEN <<>> ELSE InvocationTrace(y, "C"))
       ELSE <<>>

\* C11: what notify does depends on the event label and never on the sender:
\* for every sender s (a component or an object that is none) the effects and
\* component calls that m.notify(s, e) leaves behind are those fixed by m's
\* bindings and e alone, so any two senders give the same ones.
C11_SenderIgnored ==
    call.op = "notify" =>
        /\ IsPrefix(Tail(CallTrace), ReactionTrace(call.target, call.event))
        /\ Returned => Tail(CallTrace) = ReactionTrace(call.target, call.event)

\* The sender is no component of the graph, and the whole reaction to "D" ran.
C11_Witness ==
    /\ call.op = "notify"
    /\ call.sender = Ext
    /\ call.event = "D"
    /\ Returned
    /\ ~err
    /\ Len(CallTrace) = 6

\* ------------------------------------------------------------------ C12

\* The frames of component actions on the stack.
ActionDepth == Cardinality({i \in DOMAIN stack : stack[i].fn # "notify"})

IsEffect(e) == e.kind = "effect"

\* Whatever the wiring: at most two action calls are ever nested (the
\* client's and one reaction's, under four frames with their notify calls), a
\* client action runs at most two reaction actions after its own, and the
\* notification of a reaction's action triggers nothing.
C12_Bounded ==
    /\ ActionDepth <= 2
    /\ Len(stack) <= 4
    /\ call.op \in AllActions => Len(SelectSeq(CallTrace, IsEffect)) <= 3
    /\ call.op = "notify" => Len(SelectSeq(CallTrace, IsEffect)) <= 2
    /\ \A i \in DOMAIN stack :
           (stack[i].fn = "notify" /\ i > 2) => Reaction(stack[i].event) = <<>>

\* C12: dispatch is acyclic and always terminates: for any wiring, also with
\* components bound to another mediator than the one that holds them, every
\* client call returns after finitely many steps, triggers at most two
\* reaction actions and never nests action calls deeper than two.
C12_Terminates == []C12_Bounded /\ ((stack # <<>>) ~> (stack = <<>>))

\* A reaction's do_b runs on a component bound to another mediator than the
\* one reacting, and its own notification is being handled there.
C12_Witness ==
    /\ Len(stack) = 4
    /\ stack[1].fn = "do_d"
    /\ stack[3].fn = "do_b"
    /\ stack[4].self # stack[2].self
    /\ mediator[stack[3].self] = stack[4].self

\* ------------------------------------------------------------------ C13

\* x is held by m and by n, and references n; y is m's second component and
\* references m; z is n's second component and references n.
Shared(m, n, x, y, z) ==
    /\ m # n
    /\ y # z
    /\ component1[m] = x /\ component2[m] = y
    /\ component1[n] = x /\ component2[n] = z
    /\ mediator[x] = n
    /\ mediator[y] = m
    /\ mediator[z] = n

\* The step constructs mediator m.
Constructs(m) == component1[m] = None /\ component1'[m] # None

\* Constructing m binds its two components to m, whatever they referenced,
\* and leaves every other component's mediator and every other mediator's
\* components as they were.
LastBindingWins ==
    \A m \in Mediators :
        Constructs(m) =>
            /\ mediator'[component1'[m]] = m
            /\ mediator'[component2'[m]] = m
            /\ \A c \in Comp \ {component1'[m], component2'[m]} :
                   mediator'[c] = mediator[c]
            /\ \A k \in Mediators \ {m} :
                   component1'[k] = component1[k] /\ component2'[k] = component2[k]

\* With c1 shared as after m1 = ConcreteMediator(c1, c2) and
\* m2 = ConcreteMediator(c1, c2'): a client c1.do_a() notifies m2 alone, which
\* calls do_c on c2' and never on c2; a client c2.do_d() notifies m1, which
\* calls c1.do_b(), whose "B" goes to m2, and then c2.do_c().
SharedTraces ==
    \A m \in Mediators, n \in Mediators, x \in Comp1, y \in Comp2, z \in Comp2 :
        Shared(m, n, x, y, z) =>
            /\ (call.op = "do_a" /\ call.target = x) =>
                   LET want == << Effect(x, "do_a"), Notified(n, x, "A"), Banner(n, "A"),
                                  Effect(z, "do_c"), Notified(n, z, "C") >>
                   IN /\ IsPrefix(CallTrace, want)
                      /\ Returned => (CallTrace = want /\ ~err)
            /\ (call.op = "do_d" /\ call.target = y) =>
                   LET want == << Effect(y, "do_d"), Notified(m, y, "D"), Banner(m, "D"),
                                  Effect(x, "do_b"), Notified(n, x, "B"),
                                  Effect(y, "do_c"), Notified(m, y, "C") >>
                   IN /\ IsPrefix(CallTrace, want)
                      /\ Returned => (CallTrace = want /\ ~err)

\* C13: when a component is shared by two mediators the last binding wins for
\* its notifications: after m1 = ConcreteMediator(c1, c2) and then
\* m2 = ConcreteMediator(c1, c2'), c1 references m2 and c2 still references m1;
\* a client c1.do_a() notifies only m2 and triggers do_c on c2', never on c2,
\* and a client c2.do_d() still makes m1 call c1.do_b(), whose "B" goes to m2,
\* and c2.do_c().
C13_LastBindingWins == [][LastBindingWins]_vars /\ []SharedTraces

\* c1 is shared, its do_a has returned, and m2 alone has reacted.
C13_Witness ==
    \E m \in Mediators, n \in Mediators, x \in Comp1, y \in Comp2, z \in Comp2 :
        /\ Shared(m, n, x, y, z)
        /\ call.op = "do_a"
        /\ call.target = x
        /\ Returned
        /\ Len(CallTrace) = 5
        /\ sets = 0

====
